---- MODULE Spec2Model ----
(***************************************************************************)
(* Model of src/driver.go: the PlanetScale HTTP/JSON driver for Fastly      *)
(* Compute.  One PsConn (a pointer shared by the callers), its session     *)
(* bytes, the two exchanges of QueryContext (CreateSession, Execute), the  *)
(* JSON envelope handling and the row decoder (base64 blob + lengths).     *)
(*                                                                         *)
(* Strings and byte slices are sequences: a string is a sequence of        *)
(* one-character strings, a byte slice a sequence of numbers 0..255.       *)
(* JSON values are records tagged by their type in the field t.            *)
(***************************************************************************)
EXTENDS Integers, Sequences, FiniteSets, TLC

VARIABLES
    session,      \* PsConn.session: [nil |-> BOOLEAN, b |-> bytes] (Go tells nil from empty)
    pc,           \* per caller: "idle", "refresh", "execute", "done"; between a response
                  \* read and its handling, when calls interleave: "refreshed", "executed"
    sent,         \* per caller: the requests the current call has sent, in order
    recv,         \* per caller: the transport results the current call has received
    ret,          \* per caller: what the current call returned (or that it panicked)
    started,      \* per caller: c.session and the Close history when the call began
    lastSession,  \* session bytes of the latest response that carried a session object
    afterClose,   \* Close was called and no QueryContext has begun since; held: on a
                  \* connection that held a session
    rowsIn,       \* readRows on its own: the JSON value handed to it
    rowsOut,      \* readRows on its own: what it returned
    lastOp,       \* what the latest Prepare, Begin or Rollback returned
    overlapped,   \* some QueryContext began while another was in a round trip
    stale,        \* an execute request carried, or the calls left stored, a session that
                  \* is not the one of the latest response that carried a session
    results,      \* the PsResults a caller iterates: Fields, Rows, pos
    dest,         \* the destination the caller hands to PsResults.Next
    cursorOut,    \* what the latest call on the PsResults returned
    nextCalls     \* how many times Next has been called on the PsResults, and succeeded

cursorVars == <<results, dest, cursorOut, nextCalls>>

vars == <<session, pc, sent, recv, ret, started, lastSession, afterClose, rowsIn, rowsOut,
          lastOp, overlapped, stale, results, dest, cursorOut, nextCalls>>

----------------------------------------------------------------------------
(* Bounds *)

NumCallers == 2
MaxLens == 3
MaxNextCalls == 4

Callers == 1..NumCallers

----------------------------------------------------------------------------
(* JSON values as fastjson presents them *)

Absent == [t |-> "absent"]
JNull == [t |-> "null"]
JNum == [t |-> "number"]
Str(s) == [t |-> "string", s |-> s]
Arr(a) == [t |-> "array", a |-> a]

\* fastjson Value.GetStringBytes: the bytes of a string value, nil for anything else
GetStringBytes(v) == IF v.t = "string" THEN v.s ELSE <<>>

\* fastjson Value.GetArray: the items of an array value, nil for anything else
GetArray(v) == IF v.t = "array" THEN v.a ELSE <<>>

----------------------------------------------------------------------------
(* encoding/base64, StdEncoding (padded, not strict) *)

B64Chars ==
    << "A","B","C","D","E","F","G","H","I","J","K","L","M","N","O","P",
       "Q","R","S","T","U","V","W","X","Y","Z","a","b","c","d","e","f",
       "g","h","i","j","k","l","m","n","o","p","q","r","s","t","u","v",
       "w","x","y","z","0","1","2","3","4","5","6","7","8","9","+","/" >>

IsB64(ch) == \E i \in 1..64 : B64Chars[i] = ch

B64Val(ch) == (CHOOSE i \in 1..64 : B64Chars[i] = ch) - 1

\* the decoder skips \r and \n wherever they stand
RECURSIVE StripNewlines(_)
StripNewlines(s) ==
    IF s = <<>> THEN <<>>
    ELSE IF Head(s) \in {"\n", "\r"} THEN StripNewlines(Tail(s))
    ELSE <<Head(s)>> \o StripNewlines(Tail(s))

\* one quantum of four characters; last: nothing follows it
DecodeQuantum(g, last) ==
    LET a == B64Val(g[1])
        b == B64Val(g[2])
        c == B64Val(g[3])
        d == B64Val(g[4])
    IN  IF ~(IsB64(g[1]) /\ IsB64(g[2])) THEN [ok |-> FALSE, bytes |-> <<>>]
        ELSE IF IsB64(g[3]) /\ IsB64(g[4])
            THEN [ok |-> TRUE,
                  bytes |-> << a * 4 + (b \div 16),
                               (b % 16) * 16 + (c \div 4),
                               (c % 4) * 64 + d >>]
        ELSE IF IsB64(g[3]) /\ g[4] = "=" /\ last
            THEN [ok |-> TRUE,
                  bytes |-> << a * 4 + (b \div 16), (b % 16) * 16 + (c \div 4) >>]
        ELSE IF g[3] = "=" /\ g[4] = "=" /\ last
            THEN [ok |-> TRUE, bytes |-> << a * 4 + (b \div 16) >>]
        ELSE [ok |-> FALSE, bytes |-> <<>>]

RECURSIVE DecodeQuanta(_)
DecodeQuanta(s) ==
    IF s = <<>> THEN [ok |-> TRUE, bytes |-> <<>>]
    ELSE IF Len(s) < 4 THEN [ok |-> FALSE, bytes |-> <<>>]
    ELSE LET q == DecodeQuantum(SubSeq(s, 1, 4), Len(s) = 4)
             rest == DecodeQuanta(SubSeq(s, 5, Len(s)))
         IN  IF q.ok /\ rest.ok
                THEN [ok |-> TRUE, bytes |-> q.bytes \o rest.bytes]
                ELSE [ok |-> FALSE, bytes |-> <<>>]

\* base64.StdEncoding.Decode(dst, src): the decoded bytes, or CorruptInputError
B64Decode(src) == DecodeQuanta(StripNewlines(src))

\* base64.StdEncoding.DecodedLen(n)
DecodedLen(n) == (n \div 4) * 3

----------------------------------------------------------------------------
(* strconv.ParseUint(val, 10, 64) *)

Digits == <<"0","1","2","3","4","5","6","7","8","9">>

IsDigit(ch) == \E i \in 1..10 : Digits[i] = ch

DigitVal(ch) == (CHOOSE i \in 1..10 : Digits[i] = ch) - 1

RECURSIVE DigitsValue(_, _)
DigitsValue(s, acc) ==
    IF s = <<>> THEN acc ELSE DigitsValue(Tail(s), acc * 10 + DigitVal(Head(s)))

\* syntax error on the empty string and on any character that is no digit
ParseUint(val) ==
    IF val = <<>> \/ \E i \in 1..Len(val) : ~IsDigit(val[i])
        THEN [ok |-> FALSE, u |-> 0]
        ELSE [ok |-> TRUE, u |-> DigitsValue(val, 0)]

----------------------------------------------------------------------------
(* Go slices *)

RECURSIVE Zeros(_)
Zeros(n) == IF n <= 0 THEN <<>> ELSE <<0>> \o Zeros(n - 1)

\* make([]byte, DecodedLen(len(b))), Decode into it, dst = dst[:n]: the backing
\* array keeps its capacity, zero beyond the n decoded bytes
MakeDst(b, bytes) ==
    [data |-> bytes \o Zeros(DecodedLen(Len(b)) - Len(bytes)),
     len |-> Len(bytes),
     cap |-> DecodedLen(Len(b))]

\* dst[low:high]: Go checks 0 <= low <= high <= cap(dst), and panics otherwise
SliceInRange(dst, low, high) == low <= high /\ high <= dst.cap

\* a slip: the offset left out, every value cut from the start of the buffer
SliceOfFromStart(dst, low, high) == SubSeq(dst.data, 1, high - low)

SliceOf(dst, low, high) == SubSeq(dst.data, low + 1, high)

----------------------------------------------------------------------------
(* Errors and results *)

\* an error value: which error it is, the message it carries (the server's for
\* an application error), and the status and body a rejected exchange reports
Error(what, msg, status, body) ==
    [what |-> what, msg |-> msg, status |-> status, body |-> body]

Plain(what) == Error(what, <<>>, 0, Absent)

unknownError == Plain("unknown error")

NoError == Plain("nil")

\* what readFields / readRows hand back: (value, error), or a panic on the way
Returned(val) == [kind |-> "ok", val |-> val, err |-> NoError]
Failed(err) == [kind |-> "error", val |-> <<>>, err |-> err]
Panicked == [kind |-> "panic", val |-> <<>>, err |-> NoError]

----------------------------------------------------------------------------
(* PsConn.readFields *)

\* fastjson Value.GetUint: the number, 0 when the key is absent or no number
GetUint(v) == IF v.t = "uint" THEN v.n ELSE 0

PsField(v) ==
    [Name |-> GetStringBytes(v.name),
     Type |-> GetStringBytes(v.type),
     Table |-> GetStringBytes(v.table),
     ColumnLength |-> GetUint(v.columnLength),
     Charset |-> GetUint(v.charset),
     Flags |-> GetUint(v.flags)]

readFields(f) ==
    IF f = Absent THEN Failed(Plain("missing fields"))
    ELSE LET a == GetArray(f)
         IN  Returned([i \in 1..Len(a) |-> PsField(a[i])])

----------------------------------------------------------------------------
(* PsConn.readRows *)

\* the loop over lengths: pos is the running offset, values the row so far
RECURSIVE LengthsLoop(_, _, _, _, _)
LengthsLoop(dst, lengths, i, pos, values) ==
    IF i > Len(lengths) THEN Returned(values)
    ELSE LET p == ParseUint(GetStringBytes(lengths[i]))
         IN  IF ~p.ok THEN Failed(Plain("NumError"))
             ELSE IF ~SliceInRange(dst, pos, pos + p.u) THEN Panicked
             ELSE LengthsLoop(dst, lengths, i + 1, pos + p.u,
                              Append(values, SliceOf(dst, pos, pos + p.u)))

\* one row object: decode values, then cut it up by lengths
DecodeRow(v) ==
    LET b == GetStringBytes(v.values)
        d == B64Decode(b)
    IN  IF ~d.ok THEN Failed(Plain("CorruptInputError"))
        ELSE LengthsLoop(MakeDst(b, d.bytes), GetArray(v.lengths), 1, 0, <<>>)

RECURSIVE RowsLoop(_, _, _)
RowsLoop(r, i, rows) ==
    IF i > Len(r) THEN Returned(rows)
    ELSE LET row == DecodeRow(r[i])
         IN  IF row.kind # "ok" THEN row
             ELSE RowsLoop(r, i + 1, Append(rows, [Values |-> row.val]))

\* a slip: an empty rows array taken for a missing one
readRowsEmptyIsMissing(v) ==
    IF v = Absent \/ GetArray(v) = <<>> THEN Failed(Plain("missing rows"))
    ELSE RowsLoop(GetArray(v), 1, <<>>)

readRows(v) ==
    IF v = Absent THEN Failed(Plain("missing rows"))
    ELSE RowsLoop(GetArray(v), 1, <<>>)

----------------------------------------------------------------------------
(* Inputs of the row decoder *)

\* base64 texts: "", "QQ==" (A), "QUI=" (AB), "QUJD" (ABC), "AAEC" (0 1 2),
\* "QUJDRA==" (ABCD), "QQ==" with a line break in it, and three corrupt ones
B64Samples ==
    { <<>>,
      <<"Q","Q","=","=">>,
      <<"Q","U","I","=">>,
      <<"Q","U","J","D">>,
      <<"A","A","E","C">>,
      <<"Q","U","J","D","R","A","=","=">>,
      <<"Q","Q","\n","=","=">>,
      <<"Q","Q","=">>,
      <<"Q","!","=","=">>,
      <<"Q","Q","=","=","Q","U","J","D">> }

ValuesSamples == {Str(s) : s \in B64Samples} \cup {Absent}

\* one item of lengths: a decimal string as the protocol has it, an empty or
\* malformed string, or a bare number
LengthItems ==
    { Str(<<"0">>), Str(<<"1">>), Str(<<"2">>), Str(<<"3">>),
      Str(<<"0","3">>), Str(<<"1","0">>), Str(<<>>), Str(<<"x">>), JNum }

RECURSIVE SeqsUpTo(_, _)
SeqsUpTo(S, n) ==
    IF n = 0 THEN {<<>>}
    ELSE LET shorter == SeqsUpTo(S, n - 1)
         IN  shorter \cup {Append(s, x) : s \in {t \in shorter : Len(t) = n - 1}, x \in S}

LengthsInputs == {Arr(a) : a \in SeqsUpTo(LengthItems, MaxLens)} \cup {Absent}

RowObject(values, lengths) == [values |-> values, lengths |-> lengths]

RowInputs == {RowObject(v, l) : v \in ValuesSamples, l \in LengthsInputs}

\* rows that go together in one array: a well-formed one, one whose lengths
\* fall short, one whose lengths run over, one that is corrupt
RowSamples ==
    { RowObject(Str(<<"Q","U","J","D">>), Arr(<<Str(<<"1">>), Str(<<"2">>)>>)),
      RowObject(Str(<<"A","A","E","C">>), Arr(<<Str(<<"0">>), Str(<<"3">>)>>)),
      RowObject(Str(<<"Q","U","I","=">>), Arr(<<Str(<<"1">>)>>)),
      RowObject(Str(<<"Q","Q","=","=">>), Arr(<<Str(<<"1">>), Str(<<"2">>)>>)),
      RowObject(Str(<<"Q","U","J","D">>), Arr(<<Str(<<"1">>), Str(<<"3">>)>>)),
      RowObject(Str(<<"Q","Q","=">>), Arr(<<Str(<<"1">>)>>)) }

RowsInputs ==
    {Absent, JNull}
        \cup {Arr(<<r>>) : r \in RowInputs}
        \cup {Arr(<<r1, r2>>) : r1 \in RowSamples, r2 \in RowSamples}
        \cup {Arr(<<>>)}

NotCalled == [kind |-> "none", val |-> <<>>, err |-> NoError]

NotClosed == [closed |-> FALSE, held |-> FALSE]

\* no Prepare, Begin or Rollback since the latest QueryContext or Close
NoOp == [op |-> "none", out |-> NotCalled]

\* no PsResults in the hands of a caller
NoResults == [Fields |-> <<>>, Rows |-> <<>>, pos |-> 0]

NoCall == [op |-> "none", kind |-> "none", val |-> <<>>]

\* calls of Next so far: all of them, and those that returned nil
NoNextCalls == [all |-> 0, ok |-> 0]

\* the state outside the connection proper, before anything has happened
Untouched ==
    /\ lastOp = NoOp
    /\ overlapped = FALSE
    /\ stale = FALSE
    /\ results = NoResults
    /\ dest = <<>>
    /\ cursorOut = NoCall
    /\ nextCalls = NoNextCalls

----------------------------------------------------------------------------
(* The row decoder on its own: readRows applied to any rows value *)

InitDecode ==
    /\ rowsIn \in RowsInputs
    /\ rowsOut = NotCalled
    /\ session = [nil |-> TRUE, b |-> <<>>]
    /\ pc = [c \in Callers |-> "idle"]
    /\ sent = [c \in Callers |-> <<>>]
    /\ recv = [c \in Callers |-> <<>>]
    /\ ret = [c \in Callers |-> NotCalled]
    /\ started = [c \in Callers |-> Absent]
    /\ lastSession = Absent
    /\ afterClose = NotClosed
    /\ Untouched

ReadRowsCall ==
    /\ rowsOut = NotCalled
    /\ rowsOut' = readRows(rowsIn)
    /\ UNCHANGED <<session, pc, sent, recv, ret, started, lastSession, afterClose, rowsIn>>
    /\ UNCHANGED <<lastOp, overlapped, stale, cursorVars>>

NextDecode == ReadRowsCall

SpecDecode == InitDecode /\ [][NextDecode]_vars

----------------------------------------------------------------------------
(* The wire: requests, transport results, response bodies *)

sessionEndpoint == "/psdb.v1alpha1.Database/CreateSession"
executorEndpoint == "/psdb.v1alpha1.Database/Execute"

StatusOK == 200

\* a JSON object with the keys the driver looks up
Obj(kvs) == [t |-> "object", kvs |-> kvs]
ErrorObject(message) == [t |-> "object", message |-> message]
ResultObject(fields, rows) == [t |-> "object", fields |-> fields, rows |-> rows]

\* a response body: parses tells whether it is JSON at all; a key that the
\* document does not have is Absent
Body(parses, sess, error, result) ==
    [t |-> "body", parses |-> parses, session |-> sess, error |-> error,
     result |-> result]

NotJSON == Body(FALSE, Absent, Absent, Absent)

\* fastjson Parser.ParseBytes: the document, nil on a parse error
ParseBytes(body) == IF body.parses THEN body ELSE Absent

\* fastjson Value.Get on a nil receiver is nil
Get(v, key) == IF v = Absent THEN Absent ELSE v[key]

\* fastjson Value.GetObject: the object under key, nil when v is nil, the key is
\* absent or its value is no object
GetObject(v, key) == IF Get(v, key).t = "object" THEN Get(v, key) ELSE Absent

\* fastjson Object.MarshalTo: appends the object's JSON text to dst
RECURSIVE MarshalMembers(_, _)
MarshalMembers(kvs, i) ==
    IF i > Len(kvs) THEN <<>>
    ELSE <<"\"">> \o kvs[i][1] \o <<"\"", ":", "\"">> \o kvs[i][2] \o <<"\"">>
            \o (IF i < Len(kvs) THEN <<",">> ELSE <<>>)
            \o MarshalMembers(kvs, i + 1)

MarshalTo(dst, o) == dst \o <<"{">> \o MarshalMembers(o.kvs, 1) \o <<"}">>

\* PsConn.buildRequest
buildRequest(endpoint, body) == [endpoint |-> endpoint, body |-> body]

\* the body of an execute request: {"query":<q>,"session":<c.session>}
ExecuteBody(query, s) == [query |-> query, session |-> s]

\* the body of a session-creation request: {}
EmptyBody == [query |-> <<>>, session |-> <<>>]

\* what the transport does with a request: it fails (network, cancellation),
\* the body cannot be read, or a response arrives with its status and body
Transport(net, status, body) == [net |-> net, status |-> status, body |-> body]

\* PsConn.sendRequest
sendRequest(t) ==
    IF t.net = "fail" THEN Failed(Plain("Send"))
    ELSE IF t.net = "readfail" THEN Failed(Plain("ReadAll"))
    ELSE IF t.status # StatusOK
        THEN Failed(Error("planetscale API error", <<>>, t.status, t.body))
    ELSE Returned(t.body)

----------------------------------------------------------------------------
(* PsConn *)

NilSession == [nil |-> TRUE, b |-> <<>>]
Bytes(b) == [nil |-> FALSE, b |-> b]

\* the connection has session bytes to send
Holds(s) == ~s.nil /\ s.b # <<>>

\* a slip: the session is created anew by every call
NeedsSessionAlways(s) == TRUE

\* QueryContext: if c.session == nil
NeedsSession(s) == s.nil

\* a slip: c.session emptied before the request is sent
refreshSessionEmptiesFirst(s, t) ==
    LET r == sendRequest(t)
        v == ParseBytes(r.val)
        o == GetObject(v, "session")
    IN  IF r.kind = "error" THEN [session |-> Bytes(<<>>), out |-> Failed(r.err)]
        ELSE IF o = Absent THEN [session |-> Bytes(<<>>), out |-> Panicked]
        ELSE [session |-> Bytes(MarshalTo(<<>>, o)), out |-> Returned(<<>>)]

\* PsConn.refreshSession after the request is built: the error of sendRequest
\* is returned, the error of ParseBytes is dropped, c.session is emptied, and the
\* session object is marshalled into it (a nil *Object: nil pointer dereference)
refreshSession(s, t) ==
    LET r == sendRequest(t)
        v == ParseBytes(r.val)
        o == GetObject(v, "session")
    IN  IF r.kind = "error" THEN [session |-> s, out |-> Failed(r.err)]
        ELSE IF o = Absent THEN [session |-> Bytes(<<>>), out |-> Panicked]
        ELSE [session |-> Bytes(MarshalTo(<<>>, o)), out |-> Returned(<<>>)]

\* a slip: c.session not emptied before the new session is marshalled into it
RotateSessionAppend(s, v) ==
    IF GetObject(v, "session") # Absent
        THEN Bytes(MarshalTo(s.b, GetObject(v, "session")))
        ELSE s

\* a slip: c.session emptied whether or not the response has a session object
RotateSessionOrEmpty(s, v) ==
    IF GetObject(v, "session") # Absent
        THEN Bytes(MarshalTo(<<>>, GetObject(v, "session")))
        ELSE Bytes(<<>>)

\* a slip: the session of the response never stored
RotateSessionKeeps(s, v) == s

\* QueryContext: if session := v.GetObject("session"); session != nil { ... }
RotateSession(s, v) ==
    IF GetObject(v, "session") # Absent
        THEN Bytes(MarshalTo(<<>>, GetObject(v, "session")))
        ELSE s

\* a slip: result read first, the error object only when there is no result
ReadResponseResultFirst(v) ==
    LET jsonErr == GetObject(v, "error")
        result == GetObject(v, "result")
        f == readFields(Get(result, "fields"))
        r == readRows(Get(result, "rows"))
    IN  IF result # Absent
            THEN IF f.kind # "ok" THEN f
                 ELSE IF r.kind # "ok" THEN r
                 ELSE Returned([Fields |-> f.val, Rows |-> r.val, pos |-> 0])
        ELSE IF jsonErr # Absent
            THEN IF jsonErr.message # Absent
                    THEN Failed(Error("message", GetStringBytes(jsonErr.message), 0, Absent))
                    ELSE Failed(unknownError)
        ELSE Failed(Plain("no result"))

\* QueryContext: the error object, then result, fields and rows
ReadResponse(v) ==
    LET jsonErr == GetObject(v, "error")
        result == GetObject(v, "result")
        f == readFields(Get(result, "fields"))
        r == readRows(Get(result, "rows"))
    IN  IF jsonErr # Absent
            THEN IF jsonErr.message # Absent
                    THEN Failed(Error("message", GetStringBytes(jsonErr.message), 0, Absent))
                    ELSE Failed(unknownError)
        ELSE IF result = Absent THEN Failed(Plain("no result"))
        ELSE IF f.kind # "ok" THEN f
        ELSE IF r.kind # "ok" THEN r
        ELSE Returned([Fields |-> f.val, Rows |-> r.val, pos |-> 0])

\* QueryContext from the execute response on
ExecuteResponse(s, t) ==
    LET r == sendRequest(t)
        v == ParseBytes(r.val)
    IN  IF r.kind = "error" THEN [session |-> s, out |-> Failed(r.err)]
        ELSE IF v = Absent THEN [session |-> s, out |-> Failed(Plain("ParseBytes"))]
        ELSE [session |-> RotateSession(s, v), out |-> ReadResponse(v)]

\* fmt.Errorf("<method> method not implemented")
MethodError(method) ==
    Plain(CASE method = "Prepare" -> "Prepare method not implemented"
            [] method = "Begin" -> "Begin method not implemented"
            [] method = "Rollback" -> "Rollback method not implemented")

\* a slip: the unsupported operation drops the session
NotImplementedClearing(method, s) ==
    [session |-> [nil |-> TRUE, b |-> <<>>], out |-> Failed(MethodError(method))]

\* PsConn.Prepare, PsConn.Begin, PsConn.Rollback: the error and nothing else
NotImplemented(method, s) == [session |-> s, out |-> Failed(MethodError(method))]

\* PsConn.Close has a value receiver: c.session = nil is done to the copy, and
\* the connection of the caller keeps what it had
CloseSession(s) == s

----------------------------------------------------------------------------
(* Inputs of the connection: what the gateway and the transport may answer *)

Queries == { <<"S","E","L","E","C","T"," ","1">> }

Statuses == {StatusOK, 204, 500}

SessionObjects == { Obj(<< <<<<"i","d">>, <<"1">>>> >>),
                    Obj(<< <<<<"i","d">>, <<"2">>>>, <<<<"t">>, <<"x">>>> >>) }

SessionValues == SessionObjects \cup {Absent, JNum}

ErrorValues ==
    { Absent, JNull, ErrorObject(Absent), ErrorObject(Str(<<"b","o","o","m">>)),
      ErrorObject(JNum) }

Uint(n) == [t |-> "uint", n |-> n]

FieldObject(name, type, table, columnLength, charset, flags) ==
    [name |-> name, type |-> type, table |-> table, columnLength |-> columnLength,
     charset |-> charset, flags |-> flags]

FieldId == FieldObject(Str(<<"i","d">>), Str(<<"INT64">>), Str(<<"t">>), Uint(20), Uint(63), Uint(49667))
FieldName == FieldObject(Str(<<"n">>), Str(<<"VARCHAR">>), Str(<<"t">>), Uint(1020), Uint(255), Absent)

FieldsValues == { Absent, JNull, Arr(<<>>), Arr(<<FieldId>>), Arr(<<FieldId, FieldName>>) }

RowsValues ==
    { Absent, JNull, Arr(<<>>) }
        \cup {Arr(<<r>>) : r \in RowSamples}
        \cup { Arr(<< RowObject(Str(<<"Q","U","J","D">>), Arr(<<Str(<<"1">>), Str(<<"2">>)>>)),
                      RowObject(Str(<<"A","A","E","C">>), Arr(<<Str(<<"0">>), Str(<<"3">>)>>)) >>),
               Arr(<< RowObject(Str(<<"Q","U","J","D">>), Arr(<<Str(<<"1">>), Str(<<"2">>)>>)),
                      RowObject(Str(<<"Q","U","I","=">>), Arr(<<Str(<<"1">>)>>)) >>) }

ResultValues ==
    {Absent, JNum} \cup {ResultObject(f, r) : f \in FieldsValues, r \in RowsValues}

\* bodies of session-creation responses (the driver never looks at result there)
CreateBodies ==
    {NotJSON} \cup
    {Body(TRUE, s, e, Absent) : s \in SessionValues,
                                e \in {Absent, ErrorObject(Absent), ErrorObject(Str(<<"b","o","o","m">>))}}

ExecuteBodies ==
    {NotJSON} \cup
    {Body(TRUE, s, e, r) : s \in SessionValues, e \in ErrorValues, r \in ResultValues}

\* bodies that come with a status other than 200
OtherBodies ==
    { NotJSON,
      Body(TRUE, Obj(<< <<<<"i","d">>, <<"2">>>>, <<<<"t">>, <<"x">>>> >>), Absent,
           ResultObject(Arr(<<>>), Arr(<<>>))) }

Failures == {Transport("fail", 0, Absent), Transport("readfail", 0, Absent)}

Results(bodies) ==
    Failures
        \cup {Transport("ok", StatusOK, b) : b \in bodies}
        \cup {Transport("ok", st, b) : st \in Statuses \ {StatusOK}, b \in OtherBodies}

\* the session bytes a response carries, when the driver gets to parse it and it
\* has a session object
SessionCarried(t) ==
    IF t.net = "ok" /\ t.status = StatusOK /\ t.body.parses /\ t.body.session.t = "object"
        THEN MarshalTo(<<>>, t.body.session)
        ELSE <<>>

Carries(t) == SessionCarried(t) # <<>>

----------------------------------------------------------------------------
(* The connection: one PsConn, its callers *)

Init ==
    /\ session = NilSession
    /\ pc = [c \in Callers |-> "idle"]
    /\ sent = [c \in Callers |-> <<>>]
    /\ recv = [c \in Callers |-> <<>>]
    /\ ret = [c \in Callers |-> NotCalled]
    /\ started = [c \in Callers |-> Absent]
    /\ lastSession = Absent
    /\ afterClose = NotClosed
    /\ rowsIn = Absent
    /\ rowsOut = NotCalled
    /\ Untouched

\* no call is in flight: a Connection takes one call at a time
OneAtATime == \A c \in Callers : pc[c] = "idle"

Received(endpoint, t) == [endpoint |-> endpoint, t |-> t]

\* no call other than c's is between its start and its return
Quiet(c) == \A d \in Callers \ {c} : pc[d] \in {"idle", "done"}

\* s is not the session of the latest response that carried one
StaleSession(s, last) == last # Absent /\ s # last

\* QueryContext up to its first network round trip
QueryContext(c, q) ==
    /\ pc[c] = "idle"
    /\ started' = [started EXCEPT ![c] =
                      [t |-> "call", query |-> q, session |-> session, afterClose |-> afterClose]]
    /\ afterClose' = NotClosed
    /\ IF NeedsSession(session)
          THEN /\ sent' = [sent EXCEPT ![c] = <<buildRequest(sessionEndpoint, EmptyBody)>>]
               /\ pc' = [pc EXCEPT ![c] = "refresh"]
               /\ stale' = stale
          ELSE /\ sent' = [sent EXCEPT ![c] =
                              <<buildRequest(executorEndpoint, ExecuteBody(q, session.b))>>]
               /\ pc' = [pc EXCEPT ![c] = "execute"]
               /\ stale' = (stale \/ StaleSession(session, lastSession))
    /\ lastOp' = NoOp
    /\ overlapped' = (overlapped \/ ~Quiet(c))
    /\ UNCHANGED <<session, recv, ret, lastSession, rowsIn, rowsOut, cursorVars>>

\* the session of the latest response that carried one, once t has been read
LastReceived(t) == IF Carries(t) THEN Bytes(SessionCarried(t)) ELSE lastSession

\* refreshSession from the response on and, when it returns nil, QueryContext up
\* to the sending of the execute request; last is the session of the latest
\* response read on the connection
RefreshDone(c, t, last) ==
    LET rs == refreshSession(session, t)
    IN  /\ session' = rs.session
        /\ IF rs.out.kind = "ok"
              THEN /\ sent' = [sent EXCEPT ![c] =
                          Append(@, buildRequest(executorEndpoint,
                                      ExecuteBody(started[c].query, rs.session.b)))]
                   /\ pc' = [pc EXCEPT ![c] = "execute"]
                   /\ ret' = ret
                   /\ stale' = (stale \/ StaleSession(rs.session, last))
              ELSE /\ sent' = sent
                   /\ pc' = [pc EXCEPT ![c] = "done"]
                   /\ ret' = [ret EXCEPT ![c] = rs.out]
                   /\ stale' = (stale \/ (Quiet(c) /\ StaleSession(rs.session, last)))
        /\ UNCHANGED <<started, afterClose, rowsIn, rowsOut, lastOp, overlapped, cursorVars>>

\* the session-creation response arrives: refreshSession finishes and, when it
\* returns nil, QueryContext goes on to send the execute request
RefreshReply(c) ==
    /\ pc[c] = "refresh"
    /\ \E t \in Results(CreateBodies) :
          /\ recv' = [recv EXCEPT ![c] = Append(@, Received(sessionEndpoint, t))]
          /\ lastSession' = LastReceived(t)
          /\ RefreshDone(c, t, LastReceived(t))

\* QueryContext from the execute response to its return
ExecuteDone(c, t, last) ==
    LET ex == ExecuteResponse(session, t)
    IN  /\ session' = ex.session
        /\ ret' = [ret EXCEPT ![c] = ex.out]
        /\ pc' = [pc EXCEPT ![c] = "done"]
        /\ stale' = (stale \/ (Quiet(c) /\ StaleSession(ex.session, last)))
        /\ UNCHANGED <<sent, started, afterClose, rowsIn, rowsOut, lastOp, overlapped,
                       cursorVars>>

\* the execute response arrives: QueryContext runs to its end
ExecuteReply(c) ==
    /\ pc[c] = "execute"
    /\ \E t \in Results(ExecuteBodies) :
          /\ recv' = [recv EXCEPT ![c] = Append(@, Received(executorEndpoint, t))]
          /\ lastSession' = LastReceived(t)
          /\ ExecuteDone(c, t, LastReceived(t))

Forget(c) ==
    /\ pc' = [pc EXCEPT ![c] = "idle"]
    /\ sent' = [sent EXCEPT ![c] = <<>>]
    /\ recv' = [recv EXCEPT ![c] = <<>>]
    /\ ret' = [ret EXCEPT ![c] = NotCalled]
    /\ started' = [started EXCEPT ![c] = Absent]
    /\ UNCHANGED <<session, lastSession, afterClose, rowsIn, rowsOut, lastOp, overlapped,
                   stale, cursorVars>>

\* the caller takes what QueryContext returned
Return(c) ==
    /\ pc[c] = "done"
    /\ ret[c].kind \in {"ok", "error"}
    /\ Forget(c)

\* the panic of QueryContext unwound to a caller that recovers from it
Recover(c) ==
    /\ pc[c] = "done"
    /\ ret[c].kind = "panic"
    /\ Forget(c)

\* PsConn.Close
Close ==
    /\ session' = CloseSession(session)
    /\ afterClose' = [closed |-> TRUE, held |-> Holds(session)]
    /\ lastOp' = NoOp
    /\ UNCHANGED <<pc, sent, recv, ret, started, lastSession, rowsIn, rowsOut, overlapped,
                   stale, cursorVars>>

Unsupported(method) ==
    /\ session' = NotImplemented(method, session).session
    /\ lastOp' = [op |-> method, out |-> NotImplemented(method, session).out]
    /\ UNCHANGED <<pc, sent, recv, ret, started, lastSession, afterClose, rowsIn, rowsOut,
                   overlapped, stale, cursorVars>>

\* PsConn.Prepare
Prepare == Unsupported("Prepare")

\* PsConn.Begin
Begin == Unsupported("Begin")

\* PsConn.Rollback
Rollback == Unsupported("Rollback")

Next ==
    \/ \E c \in Callers, q \in Queries : OneAtATime /\ QueryContext(c, q)
    \/ \E c \in Callers : RefreshReply(c)
    \/ \E c \in Callers : ExecuteReply(c)
    \/ \E c \in Callers : Return(c)
    \/ \E c \in Callers : Recover(c)
    \/ OneAtATime /\ Close
    \/ OneAtATime /\ Prepare
    \/ OneAtATime /\ Begin
    \/ OneAtATime /\ Rollback

Spec == Init /\ [][Next]_vars

----------------------------------------------------------------------------
(* Calls interleaved on the one PsConn: nothing in the driver serialises them. *)
(* A call can be overtaken between the reading of a response (sendRequest)     *)
(* and the handling of it (the writes and reads of c.session).                 *)

\* the responses of the interleaved calls
NoSessionBody == Body(TRUE, Absent, Absent, Absent)

EmptyResult == ResultObject(Arr(<<>>), Arr(<<>>))

RaceCreateResults ==
    {Transport("fail", 0, Absent), Transport("ok", StatusOK, NoSessionBody)}
        \cup {Transport("ok", StatusOK, Body(TRUE, o, Absent, Absent)) : o \in SessionObjects}

RaceExecuteResults ==
    {Transport("fail", 0, Absent)}
        \cup {Transport("ok", StatusOK, Body(TRUE, o, Absent, EmptyResult)) :
                 o \in SessionObjects \cup {Absent}}

LastRead(c) == recv[c][Len(recv[c])].t

\* sendRequest of refreshSession has returned
RefreshArrives(c) ==
    /\ pc[c] = "refresh"
    /\ \E t \in RaceCreateResults :
          /\ recv' = [recv EXCEPT ![c] = Append(@, Received(sessionEndpoint, t))]
          /\ lastSession' = LastReceived(t)
    /\ pc' = [pc EXCEPT ![c] = "refreshed"]
    /\ UNCHANGED <<session, sent, ret, started, afterClose, rowsIn, rowsOut, lastOp,
                   overlapped, stale, cursorVars>>

RefreshStored(c) ==
    /\ pc[c] = "refreshed"
    /\ UNCHANGED <<recv, lastSession>>
    /\ RefreshDone(c, LastRead(c), lastSession)

\* sendRequest of QueryContext has returned
ExecuteArrives(c) ==
    /\ pc[c] = "execute"
    /\ \E t \in RaceExecuteResults :
          /\ recv' = [recv EXCEPT ![c] = Append(@, Received(executorEndpoint, t))]
          /\ lastSession' = LastReceived(t)
    /\ pc' = [pc EXCEPT ![c] = "executed"]
    /\ UNCHANGED <<session, sent, ret, started, afterClose, rowsIn, rowsOut, lastOp,
                   overlapped, stale, cursorVars>>

ExecuteStored(c) ==
    /\ pc[c] = "executed"
    /\ UNCHANGED <<recv, lastSession>>
    /\ ExecuteDone(c, LastRead(c), lastSession)

NextRace ==
    \/ \E c \in Callers, q \in Queries : QueryContext(c, q)
    \/ \E c \in Callers : RefreshArrives(c)
    \/ \E c \in Callers : RefreshStored(c)
    \/ \E c \in Callers : ExecuteArrives(c)
    \/ \E c \in Callers : ExecuteStored(c)
    \/ \E c \in Callers : Return(c)
    \/ \E c \in Callers : Recover(c)

SpecRace == Init /\ [][NextRace]_vars

----------------------------------------------------------------------------
(* PsResults: the cursor over a ResultSet *)

\* a driver.Value of the destination: nil until Next has written it
NilValue == [nil |-> TRUE, b |-> <<>>]

\* PsResults.Columns
Columns(r) == [i \in 1..Len(r.Fields) |-> r.Fields[i].Name]

\* the loop of Next: dest[i] = row.Values[i], which panics once i is no index
\* of dest, after the writes before it
CopyRow(row, d) ==
    [i \in 1..Len(d) |-> IF i <= Len(row.Values) THEN Bytes(row.Values[i]) ELSE d[i]]

\* a slip: the position left where it was
PsResultsNextStays(r, d) ==
    IF r.pos + 1 > Len(r.Rows) THEN [results |-> r, dest |-> d, kind |-> "EOF"]
    ELSE IF Len(r.Rows[r.pos + 1].Values) > Len(d)
        THEN [results |-> r, dest |-> CopyRow(r.Rows[r.pos + 1], d), kind |-> "panic"]
    ELSE [results |-> r, dest |-> CopyRow(r.Rows[r.pos + 1], d), kind |-> "ok"]

\* PsResults.Next
PsResultsNext(r, d) ==
    IF r.pos + 1 > Len(r.Rows) THEN [results |-> r, dest |-> d, kind |-> "EOF"]
    ELSE IF Len(r.Rows[r.pos + 1].Values) > Len(d)
        THEN [results |-> r, dest |-> CopyRow(r.Rows[r.pos + 1], d), kind |-> "panic"]
    ELSE [results |-> [r EXCEPT !.pos = r.pos + 1],
          dest |-> CopyRow(r.Rows[r.pos + 1], d),
          kind |-> "ok"]

\* the ResultSets QueryContext returns for the execute responses above
ResultSets ==
    { ReadResponse(b).val :
        b \in {x \in ExecuteBodies : x.parses /\ ReadResponse(x).kind = "ok"} }

\* a caller holds a ResultSet and a destination of one value per Field
InitCursor ==
    /\ results \in ResultSets
    /\ dest = [i \in 1..Len(results.Fields) |-> NilValue]
    /\ cursorOut = NoCall
    /\ nextCalls = NoNextCalls
    /\ session = NilSession
    /\ pc = [c \in Callers |-> "idle"]
    /\ sent = [c \in Callers |-> <<>>]
    /\ recv = [c \in Callers |-> <<>>]
    /\ ret = [c \in Callers |-> NotCalled]
    /\ started = [c \in Callers |-> Absent]
    /\ lastSession = Absent
    /\ afterClose = NotClosed
    /\ rowsIn = Absent
    /\ rowsOut = NotCalled
    /\ lastOp = NoOp
    /\ overlapped = FALSE
    /\ stale = FALSE

connVars ==
    <<session, pc, sent, recv, ret, started, lastSession, afterClose, rowsIn, rowsOut,
      lastOp, overlapped, stale>>

NextCall ==
    /\ nextCalls.all < MaxNextCalls
    /\ LET n == PsResultsNext(results, dest)
       IN  /\ results' = n.results
           /\ dest' = n.dest
           /\ cursorOut' = [op |-> "Next", kind |-> n.kind, val |-> <<>>]
           /\ nextCalls' = [all |-> nextCalls.all + 1,
                            ok |-> nextCalls.ok + (IF n.kind = "ok" THEN 1 ELSE 0)]
    /\ UNCHANGED connVars

ColumnsCall ==
    /\ cursorOut' = [op |-> "Columns", kind |-> "ok", val |-> Columns(results)]
    /\ UNCHANGED <<results, dest, nextCalls, connVars>>

\* PsResults.Close: return nil
CloseCall ==
    /\ cursorOut' = [op |-> "Close", kind |-> "ok", val |-> <<>>]
    /\ UNCHANGED <<results, dest, nextCalls, connVars>>

NextCursor == NextCall \/ ColumnsCall \/ CloseCall

SpecCursor == InitCursor /\ [][NextCursor]_vars

----------------------------------------------------------------------------
(* Vocabulary of the properties *)

Endpoints(c) == [i \in 1..Len(sent[c]) |-> sent[c][i].endpoint]

HasReply(c, endpoint) == \E i \in 1..Len(recv[c]) : recv[c][i].endpoint = endpoint

Reply(c, endpoint) ==
    recv[c][CHOOSE i \in 1..Len(recv[c]) : recv[c][i].endpoint = endpoint].t

\* the response reached the driver with its body
Accepted(t) == t.net = "ok" /\ t.status = StatusOK

\* the response reached the parser and is JSON
Parsed(t) == Accepted(t) /\ t.body.parses

\* a call has ended with a parsed execute response
ExecuteParsed(c) ==
    pc[c] = "done" /\ HasReply(c, executorEndpoint) /\ Parsed(Reply(c, executorEndpoint))

ExecuteDocument(c) == Reply(c, executorEndpoint).body

\* the decoded blob of a row and its lengths as numbers
Blob(row) == B64Decode(GetStringBytes(row.values))

LengthAt(row, i) == ParseUint(GetStringBytes(GetArray(row.lengths)[i]))

NumLengths(row) == Len(GetArray(row.lengths))

WellFormed(row) ==
    Blob(row).ok /\ \A i \in 1..NumLengths(row) : LengthAt(row, i).ok

RECURSIVE SumLengths(_, _)
SumLengths(row, n) == IF n = 0 THEN 0 ELSE SumLengths(row, n - 1) + LengthAt(row, n).u

LengthsMatch(row) ==
    WellFormed(row) /\ SumLengths(row, NumLengths(row)) = Len(Blob(row).bytes)

LengthsMismatch(row) ==
    WellFormed(row) /\ SumLengths(row, NumLengths(row)) # Len(Blob(row).bytes)

RECURSIVE Concat(_, _)
Concat(values, n) == IF n = 0 THEN <<>> ELSE Concat(values, n - 1) \o values[n]

----------------------------------------------------------------------------
(* Properties *)

\* C1: a call that begins with no session sends exactly one session-creation
\* request, first, and at most the execute request after it; a call that begins
\* with a session sends the execute request only.
C1_SessionBootstrap ==
    \A c \in Callers :
        pc[c] # "idle" =>
            IF started[c].session.nil
                THEN /\ Endpoints(c) \in { <<sessionEndpoint>>,
                                           <<sessionEndpoint, executorEndpoint>> }
                     /\ (pc[c] = "execute" \/ HasReply(c, executorEndpoint)
                            => Endpoints(c) = <<sessionEndpoint, executorEndpoint>>)
                ELSE Endpoints(c) = <<executorEndpoint>>

\* a first call that went through both exchanges and returned a ResultSet
C1_Witness ==
    \E c \in Callers :
        /\ pc[c] = "done" /\ ret[c].kind = "ok"
        /\ started[c].session.nil
        /\ Endpoints(c) = <<sessionEndpoint, executorEndpoint>>

\* C2: when the execute response parses and carries a session object, the stored
\* session after the call is exactly that object's serialization, whether the
\* response carries a result or an error.
C2_SessionRotation ==
    \A c \in Callers :
        ExecuteParsed(c) /\ ExecuteDocument(c).session.t = "object" =>
            session = Bytes(MarshalTo(<<>>, ExecuteDocument(c).session))

\* an error response that rotates a session different from the one sent
C2_Witness ==
    \E c \in Callers :
        /\ ExecuteParsed(c)
        /\ ExecuteDocument(c).session.t = "object"
        /\ ExecuteDocument(c).error.t = "object"
        /\ sent[c][Len(sent[c])].body.session # session.b
        /\ ret[c].kind = "error"

\* C3: every execute request carries, byte for byte, the session of the latest
\* response that had a session object, and never an empty one.
C3_SessionReplay ==
    \A c \in Callers :
        pc[c] = "execute" =>
            /\ lastSession # Absent
            /\ sent[c][Len(sent[c])].body.session # <<>>
            /\ sent[c][Len(sent[c])].body.session = lastSession.b

\* C4: a session-creation response that is JSON without a session object fails
\* the call with an error, and no execute request is sent.
C4_MissingSession ==
    \A c \in Callers :
        /\ pc[c] = "done"
        /\ HasReply(c, sessionEndpoint)
        /\ Parsed(Reply(c, sessionEndpoint))
        /\ Reply(c, sessionEndpoint).body.session.t # "object"
        => /\ ret[c].kind = "error"
           /\ Endpoints(c) = <<sessionEndpoint>>

\* C5: in either exchange a body that is not JSON ends the call with an error
\* returned to the caller.
C5_MalformedJSON ==
    \A c \in Callers :
        \A i \in 1..Len(recv[c]) :
            Accepted(recv[c][i].t) /\ ~recv[c][i].t.body.parses =>
                pc[c] = "done" /\ ret[c].kind = "error"

\* C6: an execute response with an error object fails the call with the
\* message (the unknown error without one) and no ResultSet, whatever result it
\* also carries.
C6_ErrorShortCircuit ==
    \A c \in Callers :
        ExecuteParsed(c) /\ ExecuteDocument(c).error.t = "object" =>
            LET message == ExecuteDocument(c).error.message
            IN  /\ ret[c].kind = "error"
                /\ ret[c].val = <<>>
                /\ message = Absent => ret[c].err = unknownError
                /\ message # Absent => ret[c].err.what = "message"
                /\ message.t = "string" => ret[c].err.msg = message.s

\* an error with a message beside a result whose rows would decode
C6_Witness ==
    \E c \in Callers :
        /\ ExecuteParsed(c)
        /\ ExecuteDocument(c).error.t = "object"
        /\ ExecuteDocument(c).error.message.t = "string"
        /\ ExecuteDocument(c).result.t = "object"
        /\ ExecuteDocument(c).result.fields.t = "array"
        /\ ExecuteDocument(c).result.rows.t = "array"
        /\ ExecuteDocument(c).result.rows.a # <<>>
        /\ \A i \in 1..Len(ExecuteDocument(c).result.rows.a) :
              LengthsMatch(ExecuteDocument(c).result.rows.a[i])
        /\ ret[c].kind = "error"

\* C7: a row whose lengths do not add up to the length of its decoded blob makes
\* readRows fail with an error.
C7_LengthMismatch ==
    /\ rowsOut # NotCalled
    /\ rowsIn.t = "array"
    /\ \E i \in 1..Len(rowsIn.a) : LengthsMismatch(rowsIn.a[i])
    => rowsOut.kind = "error"

\* C8: when the lengths of every row add up to the length of its decoded blob,
\* readRows yields for each row one value per length, value j being the bytes
\* from the sum of the lengths before j up to that sum plus length j, and the
\* values put together are the blob.
C8_RoundTrip ==
    /\ rowsOut # NotCalled
    /\ rowsIn.t = "array"
    /\ \A i \in 1..Len(rowsIn.a) : LengthsMatch(rowsIn.a[i])
    => /\ rowsOut.kind = "ok"
       /\ Len(rowsOut.val) = Len(rowsIn.a)
       /\ \A i \in 1..Len(rowsIn.a) :
             LET row == rowsIn.a[i]
                 values == rowsOut.val[i].Values
             IN  /\ Len(values) = NumLengths(row)
                 /\ \A j \in 1..NumLengths(row) :
                       values[j] = SubSeq(Blob(row).bytes,
                                          SumLengths(row, j - 1) + 1, SumLengths(row, j))
                 /\ Concat(values, Len(values)) = Blob(row).bytes

\* two rows decoded, the first into values 1 and 2 bytes long
C8_Witness ==
    /\ rowsOut.kind = "ok"
    /\ rowsIn.t = "array"
    /\ Len(rowsIn.a) = 2
    /\ \A i \in 1..Len(rowsIn.a) : LengthsMatch(rowsIn.a[i])
    /\ Len(rowsOut.val[1].Values) = 2
    /\ Len(rowsOut.val[1].Values[1]) = 1
    /\ Len(rowsOut.val[1].Values[2]) = 2

\* C9: after Close on a connection that held a session the connection holds no
\* session, and the next call sends a session-creation request first.
C9_SessionClearedOnClose ==
    /\ afterClose.held => session.nil
    /\ \A c \in Callers :
          pc[c] # "idle" /\ started[c].afterClose.held =>
              Endpoints(c)[1] = sessionEndpoint

\* C10 as stated: without an error object, "no result" when result is absent,
\* else "missing fields" when fields is absent, else "missing rows" when rows is
\* absent, and a ResultSet whenever both are present.
C10_AsStated ==
    \A c \in Callers :
        ExecuteParsed(c) /\ ExecuteDocument(c).error.t # "object" =>
            LET result == ExecuteDocument(c).result
            IN  IF result.t # "object" THEN ret[c] = Failed(Plain("no result"))
                ELSE IF result.fields = Absent THEN ret[c] = Failed(Plain("missing fields"))
                ELSE IF result.rows = Absent THEN ret[c] = Failed(Plain("missing rows"))
                ELSE ret[c].kind = "ok"

\* every row has base64 values and decimal lengths, and its lengths stay within
\* the buffer the blob was decoded into
RowDecodes(row) ==
    /\ WellFormed(row)
    /\ SumLengths(row, NumLengths(row)) <= DecodedLen(Len(GetStringBytes(row.values)))

\* C10, amended: the three errors as stated; with fields and rows both present
\* the call fails with none of the three, and it returns a ResultSet, of one
\* Field per item of fields and one Row per item of rows, exactly when every row
\* decodes (as it does with no rows at all).
C10_ResponseClassification ==
    \A c \in Callers :
        ExecuteParsed(c) /\ ExecuteDocument(c).error.t # "object" =>
            LET result == ExecuteDocument(c).result
            IN  IF result.t # "object" THEN ret[c] = Failed(Plain("no result"))
                ELSE IF result.fields = Absent THEN ret[c] = Failed(Plain("missing fields"))
                ELSE IF result.rows = Absent THEN ret[c] = Failed(Plain("missing rows"))
                ELSE LET rows == GetArray(result.rows)
                         decode == \A i \in 1..Len(rows) : RowDecodes(rows[i])
                     IN  /\ ret[c].err.what \notin {"no result", "missing fields", "missing rows"}
                         /\ decode <=> ret[c].kind = "ok"
                         /\ decode =>
                               /\ Len(ret[c].val.Fields) = Len(GetArray(result.fields))
                               /\ Len(ret[c].val.Rows) = Len(rows)

\* a ResultSet of no columns and no rows from fields and rows that are present
\* and empty
C10_Witness ==
    \E c \in Callers :
        /\ ExecuteParsed(c)
        /\ ExecuteDocument(c).error.t # "object"
        /\ ExecuteDocument(c).result.t = "object"
        /\ ExecuteDocument(c).result.fields = Arr(<<>>)
        /\ ExecuteDocument(c).result.rows = Arr(<<>>)
        /\ ret[c].kind = "ok"
        /\ ret[c].val.Fields = <<>>
        /\ ret[c].val.Rows = <<>>


\* C11: a call ends with a transport error exactly when the transport failed or
\* the status of the last response is outside 200..299, and the error then
\* carries the status and the body.
TransportError(c) ==
    ret[c].kind = "error"
        /\ ret[c].err.what \in {"Send", "ReadAll", "planetscale API error"}

C11_TransportStatus ==
    \A c \in Callers :
        pc[c] = "done" =>
            LET t == recv[c][Len(recv[c])].t
            IN  /\ TransportError(c) <=> (t.net # "ok" \/ t.status < 200 \/ t.status > 299)
                /\ TransportError(c) /\ t.net = "ok" =>
                      ret[c].err.status = t.status /\ ret[c].err.body = t.body

\* C13: Prepare, Begin and Rollback return the not-implemented error, send
\* nothing and leave the session as it was.
C13_UnsupportedOperations ==
    [][lastOp' # lastOp /\ lastOp'.op # "none" =>
          /\ lastOp'.out.kind = "error"
          /\ lastOp'.out.err.what \in { "Prepare method not implemented",
                                       "Begin method not implemented",
                                       "Rollback method not implemented" }
          /\ session' = session
          /\ sent' = sent
          /\ recv' = recv]_vars

\* Rollback has been called on a connection that holds a session
C13_Witness ==
    /\ lastOp.op = "Rollback"
    /\ lastOp.out.kind = "error"
    /\ Holds(session)


\* the kinds of failure of an exchange: the transport's (no response, or a
\* status outside 200..299), the protocol's (a body that is not JSON, no session
\* object after session creation, no result, fields or rows), the application's
\* (an error object)
TransportFailure(t) == t.net # "ok" \/ t.status < 200 \/ t.status > 299

ApplicationFailure(t) == Parsed(t) /\ t.body.error.t = "object"

ProtocolFailure(endpoint, t) ==
    \/ Accepted(t) /\ ~t.body.parses
    \/ Parsed(t) /\ endpoint = sessionEndpoint /\ t.body.session.t # "object"
    \/ /\ Parsed(t) /\ endpoint = executorEndpoint /\ t.body.error.t # "object"
       /\ \/ t.body.result.t # "object"
          \/ t.body.result.fields = Absent
          \/ t.body.result.rows = Absent

ExchangeFailed(r) ==
    TransportFailure(r.t) \/ ProtocolFailure(r.endpoint, r.t) \/ ApplicationFailure(r.t)

\* C14: a call sends at most one session-creation and at most one execute
\* request, and an exchange that failed is the last of the call, whose failure
\* the call returns.
C14_NoRetry ==
    \A c \in Callers :
        /\ Cardinality({i \in 1..Len(sent[c]) : sent[c][i].endpoint = sessionEndpoint}) <= 1
        /\ Cardinality({i \in 1..Len(sent[c]) : sent[c][i].endpoint = executorEndpoint}) <= 1
        /\ \A i \in 1..Len(recv[c]) :
              ExchangeFailed(recv[c][i]) =>
                  /\ pc[c] = "done"
                  /\ ret[c].kind = "error"
                  /\ Len(sent[c]) = i

\* C15: a session-creation response with an error object fails the call with
\* an application error, and no execute request is sent.
C15_CreateSessionError ==
    \A c \in Callers :
        /\ HasReply(c, sessionEndpoint)
        /\ Parsed(Reply(c, sessionEndpoint))
        /\ Reply(c, sessionEndpoint).body.error.t = "object"
        => /\ pc[c] = "done"
           /\ ret[c].kind = "error"
           /\ ret[c].err.what \in {"message", "unknown error"}
           /\ Endpoints(c) = <<sessionEndpoint>>

\* C16: every row of a ResultSet that QueryContext returns has as many values
\* as the ResultSet has Fields.
C16_FieldRowAlignment ==
    \A c \in Callers :
        pc[c] = "done" /\ ret[c].kind = "ok" =>
            \A i \in 1..Len(ret[c].val.Rows) :
                Len(ret[c].val.Rows[i].Values) = Len(ret[c].val.Fields)

\* C19: when the session-creation exchange fails in the transport, the call
\* returns the transport's error without an execute request and the connection
\* still has no session; a call that begins without a session sends a
\* session-creation request.
C19_FailedCreationState ==
    \A c \in Callers :
        /\ pc[c] = "done"
        /\ HasReply(c, sessionEndpoint)
        /\ ~Accepted(Reply(c, sessionEndpoint))
        => /\ TransportError(c)
           /\ Endpoints(c) = <<sessionEndpoint>>
           /\ session = NilSession

C19_FailedCreation ==
    /\ []C19_FailedCreationState
    /\ [][\A c \in Callers :
            session = NilSession /\ pc[c] = "idle" /\ pc'[c] # "idle" =>
                /\ pc'[c] = "refresh"
                /\ Endpoints(c)' = <<sessionEndpoint>>]_vars

\* a rejected session creation answered with status 500
C19_Witness ==
    \E c \in Callers :
        /\ pc[c] = "done"
        /\ HasReply(c, sessionEndpoint)
        /\ Reply(c, sessionEndpoint).net = "ok"
        /\ Reply(c, sessionEndpoint).status = 500
        /\ ret[c].kind = "error"
        /\ session = NilSession

\* C20: when the execute exchange fails in the transport, or its body is not
\* JSON, or its document has no session object, the session stored after the
\* call is the one the execute request was built with.
C20_FailedExecuteKeepsSession ==
    \A c \in Callers :
        /\ pc[c] = "done"
        /\ HasReply(c, executorEndpoint)
        /\ LET t == Reply(c, executorEndpoint)
           IN  \/ ~Accepted(t)
               \/ ~t.body.parses
               \/ t.body.session.t # "object"
        => session = Bytes(sent[c][Len(sent[c])].body.session)

\* an execute response that is not JSON, on a connection with a session
C20_Witness ==
    \E c \in Callers :
        /\ pc[c] = "done"
        /\ HasReply(c, executorEndpoint)
        /\ Accepted(Reply(c, executorEndpoint))
        /\ ~Reply(c, executorEndpoint).body.parses
        /\ Holds(session)
        /\ ret[c].kind = "error"


C17_DeliveredInOrder == results.pos = nextCalls.ok

C17_ForwardOnly ==
    /\ []C17_DeliveredInOrder
    /\ [][/\ results'.Fields = results.Fields
          /\ results'.Rows = results.Rows
          /\ cursorOut'.op = "Next" /\ cursorOut'.kind = "ok"
                /\ nextCalls'.all = nextCalls.all + 1 =>
                LET row == results.Rows[nextCalls.ok + 1]
                IN  /\ results'.pos = results.pos + 1
                    /\ \A i \in 1..Len(dest) :
                          dest'[i] = IF i <= Len(row.Values)
                                        THEN Bytes(row.Values[i]) ELSE dest[i]
          /\ cursorOut'.op \in {"Columns", "Close"} =>
                results' = results /\ dest' = dest]_vars

\* the second of two rows delivered, after Columns was called
C17_Witness ==
    /\ Len(results.Rows) = 2
    /\ nextCalls.ok = 2
    /\ results.pos = 2
    /\ cursorOut.op = "Columns"
    /\ Len(dest) = 2
    /\ \A k \in 1..2 : Len(results.Rows[k].Values) = 2
    /\ dest[2] = Bytes(results.Rows[2].Values[2])
    /\ results.Rows[1].Values[2] # results.Rows[2].Values[2]


\* C18: two calls between start and return that have both sent CreateSession,
\* an execute request that carried a session other than that of the latest
\* response, or such a session left stored when the calls are over, happen only
\* when a QueryContext began while another was under way; with one call at a
\* time none of them happens.
InFlight(c) == pc[c] \notin {"idle", "done"}

CreatedSession(c) == sent[c] # <<>> /\ sent[c][1].endpoint = sessionEndpoint

DoubleCreate ==
    \E c, d \in Callers :
        c # d /\ InFlight(c) /\ InFlight(d) /\ CreatedSession(c) /\ CreatedSession(d)

C18_Race == (DoubleCreate \/ stale) => overlapped

\* two interleaved calls each created a session and sent its own in the execute
\* request; the connection is left with the session of the response read first
C18_Witness ==
    /\ overlapped
    /\ stale
    /\ \A c \in Callers :
          /\ pc[c] = "done"
          /\ ret[c].kind = "ok"
          /\ Len(sent[c]) = 2
          /\ CreatedSession(c)
    /\ sent[1][2].body.session # sent[2][2].body.session
    /\ lastSession # Absent
    /\ session # lastSession

====
